---- MODULE Spec2Model ----
(***************************************************************************)
(* Diet analysis application: the blob-triggered precompute pipeline       *)
(* (functions_nutrition/DietAnalysisFunction), the cached results HTTP     *)
(* function (functions_nutrition/GetDietResults) and the recipe search,    *)
(* pager and macro-dominance classifier of the dashboard route (app.py).   *)
(*                                                                         *)
(* Text is a sequence of one-character strings.  Python values are tagged  *)
(* records [t, v].  A float is [k, n, d]: the finite value n/d in lowest   *)
(* terms (binary rounding is not modelled) or the NaN.                     *)
(***************************************************************************)
EXTENDS Integers, Sequences, FiniteSets, TLC

\* ------------------------------------------------------------------ bounds
MaxStrLen == 3      \* longest raw macro field enumerated character by character
MaxRows   == 2      \* most data rows of an input blob
MaxRuns   == 2      \* most pipeline runs in the storage model
MaxReads  == 2      \* most requests to the cached results function
MaxTotal  == 23     \* most records of a dataset of the pager
MaxPage   == 5      \* largest requested page
MaxRecs   == 2      \* most records of a dataset of the search
MaxCRecs  == 3      \* most records of a dataset of the classifier
MaxKwLen  == 2      \* longest keyword
MaxMacro  == 1      \* largest macro quantity of a record of the classifier

\* ------------------------------------------------------------ python values
NoneV      == [t |-> "none", v |-> <<>>]
Str(s)     == [t |-> "str", v |-> s]
ListV(l)   == [t |-> "list", v |-> l]
FloatV(f)  == [t |-> "float", v |-> f]

Truthy(x)  == x.t = "str" /\ x.v # <<>>
Or(x, y)   == IF Truthy(x) THEN x ELSE y

RECURSIVE GCD(_, _)
GCD(a, b)  == IF b = 0 THEN a ELSE GCD(b, a % b)
Abs(a)     == IF a < 0 THEN -a ELSE a

Fin(n, d)  == LET g == GCD(Abs(n), d)
              IN  [k |-> "fin", n |-> n \div g, d |-> d \div g]
NaN        == [k |-> "nan", n |-> 0, d |-> 1]
Zero       == Fin(0, 1)

FAdd(a, b) == IF a.k = "nan" \/ b.k = "nan" THEN NaN
              ELSE Fin(a.n * b.d + b.n * a.d, a.d * b.d)
FDivInt(a, c) == IF a.k = "nan" THEN NaN ELSE Fin(a.n, a.d * c)

\* ------------------------------------------------------------ _parse_float
Alphabet   == {" ", "-", "0", "1", ".", "n", "a"}
Digits     == {"0", "1"}
DigitVal(c) == IF c = "1" THEN 1 ELSE 0

RECURSIVE LStrip(_)
LStrip(s)  == IF s # <<>> /\ Head(s) = " " THEN LStrip(Tail(s)) ELSE s
RECURSIVE RStrip(_)
RStrip(s)  == IF s # <<>> /\ s[Len(s)] = " " THEN RStrip(SubSeq(s, 1, Len(s) - 1)) ELSE s
Strip(s)   == RStrip(LStrip(s))

RECURSIVE DigitsVal(_)
DigitsVal(s) == IF s = <<>> THEN 0
                ELSE 10 * DigitsVal(SubSeq(s, 1, Len(s) - 1)) + DigitVal(s[Len(s)])
RECURSIVE Pow10(_)
Pow10(e)   == IF e = 0 THEN 1 ELSE 10 * Pow10(e - 1)

AllDigits(s) == \A i \in 1..Len(s) : s[i] \in Digits

\* float() on an unsigned literal: "nan", or digits with at most one point
\* and at least one digit.  ValueError is [k |-> "err"].
ValueError == [k |-> "err", n |-> 0, d |-> 1]
FloatUnsigned(s) ==
    IF s = <<"n", "a", "n">> THEN NaN
    ELSE LET dots == {i \in 1..Len(s) : s[i] = "."}
         IN  IF dots = {}
             THEN IF s # <<>> /\ AllDigits(s) THEN Fin(DigitsVal(s), 1) ELSE ValueError
             ELSE IF Cardinality(dots) > 1 THEN ValueError
             ELSE LET p    == CHOOSE i \in dots : TRUE
                      ip   == SubSeq(s, 1, p - 1)
                      fp   == SubSeq(s, p + 1, Len(s))
                  IN  IF AllDigits(ip) /\ AllDigits(fp) /\ Len(ip) + Len(fp) > 0
                      THEN Fin(DigitsVal(ip \o fp), Pow10(Len(fp)))
                      ELSE ValueError
FNeg(a)    == IF a.k = "fin" THEN Fin(-a.n, a.d) ELSE a
PyFloat(s) == IF s # <<>> /\ Head(s) = "-" THEN FNeg(FloatUnsigned(Tail(s)))
              ELSE FloatUnsigned(s)

ParseFloat(x) ==
    IF x.t = "none" THEN Zero
    ELSE LET s == Strip(x.v)
         IN  IF s = <<>> THEN Zero
             ELSE IF PyFloat(s).k = "err" THEN Zero
             ELSE PyFloat(s)

\* ------------------------------------------------------------- dictionaries
\* A dict keeps its keys in insertion order.
EmptyDict      == [keys |-> <<>>, val |-> <<>>]
InSeq(e, s)    == \E i \in 1..Len(s) : s[i] = e
KeySet(d)      == {d.keys[i] : i \in 1..Len(d.keys)}
DictGet(d, k)  == IF InSeq(k, d.keys) THEN d.val[k] ELSE NoneV
DictSet(d, k, x) ==
    [keys |-> IF InSeq(k, d.keys) THEN d.keys ELSE Append(d.keys, k),
     val  |-> [j \in KeySet(d) \cup {k} |-> IF j = k THEN x ELSE d.val[j]]]

\* --------------------------------------------------------- csv.DictReader
RestKey == "None"          \* DictReader's restkey, the key None

DictReaderRow(header, fields) ==
    LET lf == Len(header)
        lr == Len(fields)
        named == [keys |-> header,
                  val  |-> [k \in {header[i] : i \in 1..lf} |->
                             LET i == CHOOSE j \in 1..lf : header[j] = k
                             IN  IF i <= lr THEN Str(fields[i]) ELSE NoneV]]
    IN  IF lf < lr THEN DictSet(named, RestKey, ListV(SubSeq(fields, lf + 1, lr)))
        ELSE named

RECURSIVE DictReaderRows(_, _)
DictReaderRows(header, lines) ==
    IF lines = <<>> THEN <<>>
    ELSE IF Head(lines) = <<>> THEN DictReaderRows(header, Tail(lines))
    ELSE <<DictReaderRow(header, Head(lines))>> \o DictReaderRows(header, Tail(lines))

\* --------------------------------------------------- _clean_and_summarize
Unknown == <<"U", "n", "k", "n", "o", "w", "n">>

CleanRow(row) ==
    LET diet_type   == Or(Or(DictGet(row, "Diet_type"), DictGet(row, "Diet Type")), Str(Unknown))
        protein_raw == Or(DictGet(row, "Protein(g)"), DictGet(row, "Protein (g)"))
        carbs_raw   == Or(DictGet(row, "Carbs(g)"), DictGet(row, "Carbs (g)"))
        fat_raw     == Or(DictGet(row, "Fat(g)"), DictGet(row, "Fat (g)"))
        c1 == DictSet(row, "Diet_type", diet_type)
        c2 == DictSet(c1, "Protein(g)", FloatV(ParseFloat(protein_raw)))
        c3 == DictSet(c2, "Carbs(g)", FloatV(ParseFloat(carbs_raw)))
    IN  DictSet(c3, "Fat(g)", FloatV(ParseFloat(fat_raw)))

ZeroSums == [P |-> Zero, C |-> Zero, F |-> Zero]

\* the accumulators sums and counts after the loop over the rows
RECURSIVE Accumulate(_)
Accumulate(rows) ==
    IF rows = <<>> THEN [sums |-> EmptyDict, counts |-> EmptyDict]
    ELSE LET acc  == Accumulate(SubSeq(rows, 1, Len(rows) - 1))
             c    == CleanRow(rows[Len(rows)])
             diet == c.val["Diet_type"].v
             s0   == IF InSeq(diet, acc.sums.keys) THEN acc.sums.val[diet] ELSE ZeroSums
             n0   == IF InSeq(diet, acc.counts.keys) THEN acc.counts.val[diet] ELSE 0
         IN  [sums   |-> DictSet(acc.sums, diet,
                                 [P |-> FAdd(s0.P, c.val["Protein(g)"].v),
                                  C |-> FAdd(s0.C, c.val["Carbs(g)"].v),
                                  F |-> FAdd(s0.F, c.val["Fat(g)"].v)]),
              counts |-> DictSet(acc.counts, diet, n0 + 1)]

Max(a, b) == IF a >= b THEN a ELSE b
Min(a, b) == IF a <= b THEN a ELSE b

Average_Sum(total, n) == total
\* lines 72-80: the averages of one diet
Average(total, n) ==
    [P |-> FDivInt(total.P, Max(1, n)),
     C |-> FDivInt(total.C, Max(1, n)),
     F |-> FDivInt(total.F, Max(1, n))]
AvgMacros(sums, counts) ==
    [keys |-> sums.keys,
     val  |-> [diet \in KeySet(sums) |-> Average(sums.val[diet], counts.val[diet])]]
Summaries(sums, counts) ==
    [avg_macros_by_diet |-> AvgMacros(sums, counts), recipe_counts_by_diet |-> counts]

CleanAndSummarize(rows) ==
    [cleaned_rows |-> [i \in 1..Len(rows) |-> CleanRow(rows[i])],
     summaries    |-> Summaries(Accumulate(rows).sums, Accumulate(rows).counts)]

\* ---------------------------------------------------------- csv.DictWriter
DefaultFieldnames == <<"Diet_type", "Protein(g)", "Carbs(g)", "Fat(g)">>
Fieldnames(cleaned_rows) ==
    IF cleaned_rows # <<>> THEN cleaned_rows[1].keys ELSE DefaultFieldnames

\* DictWriter raises ValueError for a row holding a key outside fieldnames
WriterRaises(cleaned_rows) ==
    LET fn == Fieldnames(cleaned_rows)
    IN  \E i \in 1..Len(cleaned_rows) :
            \E k \in KeySet(cleaned_rows[i]) : ~InSeq(k, fn)

CsvCell(x) == IF x.t = "none" THEN Str(<<>>) ELSE x
CsvText(cleaned_rows) ==
    LET fn == Fieldnames(cleaned_rows)
    IN  [header |-> fn,
         lines  |-> [i \in 1..Len(cleaned_rows) |->
                      [j \in 1..Len(fn) |-> CsvCell(DictGet(cleaned_rows[i], fn[j]))]]]

\* ------------------------------------------------- json.dump / json.load
\* The encoded artifact is written as a sequence of chunks; only the whole
\* sequence decodes.
Chunk(tok, body)      == [tok |-> tok, body |-> body]
JsonChunks(summaries) == <<Chunk("{", <<>>), Chunk("body", <<summaries>>), Chunk("}", <<>>)>>
JsonDecodes(text)     == /\ Len(text) = 3
                         /\ text[1].tok = "{" /\ text[2].tok = "body" /\ text[3].tok = "}"
JsonLoad(text)        == text[2].body[1]

\* a file or blob: absent, or present with its text
Absent        == [exists |-> FALSE, text |-> <<>>]
Present(text) == [exists |-> TRUE, text |-> text]
Garbage       == Present(<<Chunk("garbage", <<>>)>>)

\* ------------------------------------------------------------ input blobs
H1 == <<"Diet_type", "Protein(g)", "Carbs(g)", "Fat(g)">>
H2 == <<"Diet Type", "Protein (g)", "Carbs (g)", "Fat (g)">>
Headers == {H1, H2}

Keto  == <<"k", "e", "t", "o">>
Vegan == <<"v", "e", "g", "a", "n">>

GoodRow  == <<Keto, <<"1", "0">>, <<"1">>, <<"0", ".", "1">>>>
ShortRow == <<Vegan, <<"1">>>>
LongRow  == <<Keto, <<"1">>, <<"0">>, <<"1">>, <<"a">>>>
BadRow   == <<<<>>, <<"a">>, <<" ">>, <<" ", "1", " ">>>>
NanRow   == <<Vegan, <<"n", "a", "n">>, <<"1">>, <<"-", "1">>>>
BlankRow == <<>>
SampleRows == {GoodRow, ShortRow, LongRow, BadRow, NanRow, BlankRow}

SeqsUpTo(S, n) == UNION {[1..m -> S] : m \in 0..n}
InputBlobs == [header : Headers, lines : SeqsUpTo(SampleRows, MaxRows)]

\* the two datasets of the storage model
CacheInputs == {[header |-> H1, lines |-> <<GoodRow>>],
                [header |-> H1, lines |-> <<GoodRow, NanRow>>]}

\* ====================================================================
\* State
\* ====================================================================
VARIABLES
    pPc,            \* position of the pipeline run (DietAnalysisFunction.main)
    inputBlob,      \* the blob that triggered the run
    cleaned_rows,   \* main's local cleaned_rows
    summaries,      \* main's local summaries
    cleanedOut,     \* value set on the cleanedBlob output binding
    summaryOut,     \* value set on the summaryBlob output binding
    pending,        \* output bindings the host has still to write
    putFailed,      \* a durable write of the run failed
    runs,           \* number of runs started
    localFile,      \* the local mirror file OUTPUT_PATH / LOCAL_PATH
    cleanedStore,   \* durable blob Cleaned_All_Diets.csv
    summaryStore,   \* durable blob summaries.json
    startLocal,     \* localFile when the current run started
    startSummary,   \* summaryStore when the current run started
    written,        \* summaries computed by the runs so far
    rPc,            \* position of the request (GetDietResults.main)
    resp,           \* response of the last finished request
    durableOutcome, \* outcome of the request's durable fetch
    localOutcome,   \* outcome of the request's local read
    overlapped,     \* the request read the mirror while a run was writing it
    reads,          \* number of requests started
    nPc,            \* position of the normalization of one row
    raw_row,        \* a row as csv.DictReader yields it
    clean_row,      \* its cleaned_row
    aPc,            \* position of the dashboard request (app.index)
    raw_df,         \* the dataset loaded at start-up
    form,           \* the request form: action, dietType, keyword, page
    tie,            \* how the sort of the request orders equal keys
    rec_df,         \* index's rec_df after the keyword mask
    Cluster,        \* index's df["Cluster"] column
    message,        \* the message lines handed to the template
    total_pages,    \* total_pages handed to the template
    current_page    \* current_page handed to the template

pipeVars  == <<pPc, inputBlob, cleaned_rows, summaries, cleanedOut, summaryOut,
               pending, putFailed, runs, startLocal, startSummary, written>>
storeVars == <<localFile, cleanedStore, summaryStore>>
readVars  == <<rPc, resp, durableOutcome, localOutcome, overlapped, reads>>
normVars  == <<nPc, raw_row, clean_row>>
appVars   == <<aPc, raw_df, form, tie, rec_df, Cluster, message, total_pages, current_page>>
vars == <<pipeVars, storeVars, readVars, normVars, appVars>>

NoText == [header |-> <<>>, lines |-> <<>>]
NoSummaries == CleanAndSummarize(<<>>).summaries

PipeInit ==
    /\ pPc = "idle" /\ inputBlob = NoText
    /\ cleaned_rows = <<>> /\ summaries = NoSummaries
    /\ cleanedOut = NoneV /\ summaryOut = NoneV
    /\ pending = {} /\ putFailed = FALSE /\ runs = 0
    /\ startLocal = Absent /\ startSummary = Absent /\ written = {}

NoResp == [kind |-> "none", status |-> 0, source |-> "", data |-> NoneV, exc |-> ""]
ReadInit ==
    /\ rPc = "idle" /\ resp = NoResp
    /\ durableOutcome = "" /\ localOutcome = "" /\ overlapped = FALSE /\ reads = 0

NormIdle == nPc = "idle" /\ raw_row = EmptyDict /\ clean_row = EmptyDict
NoForm == [action |-> "", dietType |-> <<>>, keyword |-> <<>>, page |-> 1]
AppIdle ==
    /\ aPc = "idle" /\ raw_df = <<>> /\ form = NoForm /\ tie = "first"
    /\ rec_df = <<>> /\ Cluster = <<>> /\ message = <<>>
    /\ total_pages = 1 /\ current_page = 1

\* ====================================================================
\* DietAnalysisFunction.main
\* ====================================================================
\* lines 111-118: read the blob, parse the rows, clean and summarize
Pipeline_Read(inputs, maxRuns) ==
    /\ pPc \in {"idle", "done", "failed", "raised"}
    /\ runs < maxRuns
    /\ \E b \in inputs :
        LET rows == DictReaderRows(b.header, b.lines)
            cs   == CleanAndSummarize(rows)
        IN  /\ inputBlob' = b
            /\ cleaned_rows' = cs.cleaned_rows
            /\ summaries' = cs.summaries
            /\ written' = written \cup {cs.summaries}
    /\ pPc' = "summarized"
    /\ runs' = runs + 1
    /\ cleanedOut' = NoneV /\ summaryOut' = NoneV
    /\ pending' = {} /\ putFailed' = FALSE
    /\ startLocal' = localFile /\ startSummary' = summaryStore
    /\ UNCHANGED <<normVars, appVars, storeVars, readVars>>

pipeLocals == <<inputBlob, cleaned_rows, summaries, runs, startLocal, startSummary, written>>

\* lines 122-123: makedirs and open(OUTPUT_PATH, "w") truncate the mirror
Pipeline_MirrorOpen ==
    /\ pPc = "summarized"
    /\ pPc' = "dumping"
    /\ localFile' = Present(<<>>)
    /\ UNCHANGED <<normVars, appVars, pipeLocals, cleanedOut, summaryOut, pending, putFailed,
                   cleanedStore, summaryStore, readVars>>

\* line 124: json.dump writes the next chunk; the file is closed after the last
Pipeline_MirrorDump ==
    /\ pPc = "dumping"
    /\ LET text == JsonChunks(summaries)
           n    == Len(localFile.text) + 1
       IN  /\ localFile' = Present(SubSeq(text, 1, n))
           /\ pPc' = IF n = Len(text) THEN "mirrored" ELSE "dumping"
    /\ UNCHANGED <<normVars, appVars, pipeLocals, cleanedOut, summaryOut, pending, putFailed,
                   cleanedStore, summaryStore, readVars>>

\* lines 125-127: an error of makedirs, open or dump is swallowed
Pipeline_MirrorFails ==
    /\ pPc \in {"summarized", "dumping"}
    /\ pPc' = "mirrored"
    /\ UNCHANGED <<normVars, appVars, pipeLocals, cleanedOut, summaryOut, pending, putFailed,
                   storeVars, readVars>>

\* lines 130-140: write the cleaned rows as CSV and set the output binding
Pipeline_WriteCsv ==
    /\ pPc = "mirrored"
    /\ IF WriterRaises(cleaned_rows)
       THEN /\ pPc' = "raised"
            /\ cleanedOut' = cleanedOut
       ELSE /\ pPc' = "csvset"
            /\ cleanedOut' = [t |-> "csv", v |-> CsvText(cleaned_rows)]
    /\ UNCHANGED <<normVars, appVars, pipeLocals, summaryOut, pending, putFailed, storeVars, readVars>>

\* line 143: set the summary output binding, then return
Pipeline_SetSummary ==
    /\ pPc = "csvset"
    /\ summaryOut' = Present(JsonChunks(summaries))
    /\ pending' = {"cleaned", "summary"}
    /\ pPc' = "returned"
    /\ UNCHANGED <<normVars, appVars, pipeLocals, cleanedOut, putFailed, storeVars, readVars>>

AfterPut(b, failed) ==
    /\ pending' = pending \ {b}
    /\ putFailed' = failed
    /\ pPc' = IF pending \ {b} # {} THEN "returned"
              ELSE IF failed THEN "failed" ELSE "done"

\* the host writes an output binding to durable storage: an atomic put
Host_Put ==
    /\ pPc = "returned"
    /\ \E b \in pending :
        /\ IF b = "cleaned"
           THEN cleanedStore' = cleanedOut /\ summaryStore' = summaryStore
           ELSE summaryStore' = summaryOut /\ cleanedStore' = cleanedStore
        /\ AfterPut(b, putFailed)
    /\ UNCHANGED <<normVars, appVars, pipeLocals, cleanedOut, summaryOut, localFile, readVars>>

\* a durable write fails: the blob keeps its content and the run fails
Host_PutFails ==
    /\ pPc = "returned"
    /\ \E b \in pending : AfterPut(b, TRUE)
    /\ UNCHANGED <<normVars, appVars, pipeLocals, cleanedOut, summaryOut, storeVars, readVars>>

\* ====================================================================
\* GetDietResults.main
\* ====================================================================
OkResp(source, data) ==
    [kind |-> "ok", status |-> 200, source |-> source, data |-> data, exc |-> ""]
NotFoundResp ==
    [kind |-> "notfound", status |-> 404, source |-> "", data |-> NoneV, exc |-> ""]
Raised(exc) ==
    [kind |-> "exception", status |-> 0, source |-> "", data |-> NoneV, exc |-> exc]

\* lines 30-35: what the download and json.loads of the blob end in
DurableFetch(store, up) ==
    IF ~up THEN "connectivity"
    ELSE IF ~store.exists THEN "notfound"
    ELSE IF JsonDecodes(store.text) THEN "ok" ELSE "deserialization"

\* lines 41-42: what open and json.load of the mirror end in
LocalRead(file, readable) ==
    IF ~file.exists THEN "FileNotFoundError"
    ELSE IF ~readable THEN "PermissionError"
    ELSE IF JsonDecodes(file.text) THEN "ok" ELSE "JSONDecodeError"

DurableSource_Local == "local"
\* line 37
DurableSource == "blob"
\* line 43
LocalSource == "local"
\* line 44: the only exception the inner handler catches
CaughtLocal(exc) == exc = "FileNotFoundError"

\* lines 40-49 and 51-58: the response of the fallback stage
LocalResponse(file, readable) ==
    LET out == LocalRead(file, readable)
    IN  IF out = "ok" THEN OkResp(LocalSource, [t |-> "json", v |-> JsonLoad(file.text)])
        ELSE IF CaughtLocal(out) THEN NotFoundResp
        ELSE Raised(out)

\* lines 29-58: the response of a request served from stores in a given state
Response(store, file, up, readable) ==
    IF DurableFetch(store, up) = "ok"
    THEN OkResp(DurableSource, [t |-> "json", v |-> JsonLoad(store.text)])
    ELSE LocalResponse(file, readable)

\* lines 29-37: the durable fetch
Get_FetchDurable(maxReads) ==
    /\ rPc = "idle"
    /\ reads < maxReads
    /\ reads' = reads + 1
    /\ \E up \in BOOLEAN :
        LET out == DurableFetch(summaryStore, up)
        IN  /\ durableOutcome' = out
            /\ IF out = "ok"
               THEN /\ resp' = Response(summaryStore, localFile, up, TRUE)
                    /\ rPc' = "idle"
               ELSE /\ resp' = NoResp
                    /\ rPc' = "fallback"
    /\ localOutcome' = ""
    /\ overlapped' = FALSE
    /\ UNCHANGED <<normVars, appVars, pipeVars, storeVars>>

\* lines 39-49: the local mirror read
Get_ReadLocal ==
    /\ rPc = "fallback"
    /\ \E readable \in BOOLEAN :
        /\ localOutcome' = LocalRead(localFile, readable)
        /\ resp' = LocalResponse(localFile, readable)
    /\ overlapped' = (pPc = "dumping")
    /\ rPc' = "idle"
    /\ UNCHANGED <<normVars, appVars, pipeVars, storeVars, durableOutcome, reads>>

\* ====================================================================
\* app.py: filter_by_diet and index
\* ====================================================================
Lower(c) == CASE c = "A" -> "a" [] c = "B" -> "b" [] c = "K" -> "k"
              [] c = "V" -> "v" [] OTHER -> c
LowerStr(s) == [i \in 1..Len(s) |-> Lower(s[i])]
CodePoint(c) == CASE c = " " -> 32 [] c = "(" -> 40 [] c = "." -> 46
                  [] c = "A" -> 65 [] c = "B" -> 66
                  [] c = "a" -> 97 [] c = "b" -> 98 [] OTHER -> 120

RECURSIVE Filter(_, _)
\* the rows of df, in order, whose index is in keep
Filter(df, keep) ==
    IF df = <<>> THEN <<>>
    ELSE Filter(SubSeq(df, 1, Len(df) - 1), keep)
            \o (IF Len(df) \in keep THEN <<df[Len(df)]>> ELSE <<>>)

filter_by_diet(df, diet_name) ==
    IF diet_name = <<>> THEN df
    ELSE Filter(df, {i \in 1..Len(df) : LowerStr(df[i].Diet_type) = LowerStr(diet_name)})

\* re.compile(keyword) fails on an unbalanced parenthesis
ReError(pat) == \E i \in 1..Len(pat) : pat[i] = "("
\* re.search with IGNORECASE: "." matches any character
ReMatchAt(pat, text, i) ==
    \A j \in 1..Len(pat) : pat[j] = "." \/ Lower(pat[j]) = Lower(text[i + j - 1])
\* Series.str.contains(pat, case=False, na=False) on one cell
StrContains(x, pat) ==
    IF x.t = "none" THEN FALSE
    ELSE \E i \in 1..(Len(x.v) - Len(pat) + 1) : ReMatchAt(pat, x.v, i)

RECURSIVE StrLess(_, _)
StrLess(a, b) ==
    IF a = <<>> THEN b # <<>>
    ELSE IF b = <<>> THEN FALSE
    ELSE IF Head(a) = Head(b) THEN StrLess(Tail(a), Tail(b))
    ELSE CodePoint(Head(a)) < CodePoint(Head(b))
\* the order of sort_values: text by code point, missing names last
NameLess(x, y) ==
    IF x.t = "none" THEN FALSE
    ELSE IF y.t = "none" THEN TRUE
    ELSE StrLess(x.v, y.v)

\* number of leading rows of s that stay before r
InsertPos(s, r, t) ==
    Cardinality({i \in 1..Len(s) :
        IF t = "first" THEN ~NameLess(r.Recipe_name, s[i].Recipe_name)
        ELSE NameLess(s[i].Recipe_name, r.Recipe_name)})
RECURSIVE SortByName(_, _)
\* rec_df.sort_values("Recipe_name"); rows of equal name keep their order
\* (t = "first") or come out reversed (t = "last")
SortByName(df, t) ==
    IF df = <<>> THEN <<>>
    ELSE LET s == SortByName(SubSeq(df, 1, Len(df) - 1), t)
             r == df[Len(df)]
             p == InsertPos(s, r, t)
         IN  SubSeq(s, 1, p) \o <<r>> \o SubSeq(s, p + 1, Len(s))

per_page == 10
Ceil_Floor(a, b) == a \div b
Ceil(a, b) == IF a % b = 0 THEN a \div b ELSE (a \div b) + 1
TotalPages(total) == Max(1, Ceil(total, per_page))
ClampPage(page, pages) ==
    LET p1 == IF page < 1 THEN 1 ELSE page
    IN  IF p1 > pages THEN pages ELSE p1
\* rec_df.iloc[start:end]
ILoc(df, start, end) == SubSeq(df, start + 1, Min(end, Len(df)))

NoRecipes == [text |-> "No recipes found for your search."]
RecipeLine(r) == [text |-> "{recipe_name} ({diet}, {cuisine})",
                  recipe_name |-> r.Recipe_name, diet |-> r.Diet_type,
                  cuisine |-> r.Cuisine_type]

\* lines 207-217 and 264-301: a request with action "recipes"
Index_Recipes ==
    /\ aPc = "idle"
    /\ form.action = "recipes"
    /\ LET keyword     == Strip(form.keyword)
           df_filtered == filter_by_diet(raw_df, form.dietType)
       IN  IF keyword # <<>> /\ ReError(keyword)
           THEN /\ aPc' = "raised"
                /\ UNCHANGED <<rec_df, message, total_pages, current_page>>
           ELSE LET masked ==
                        IF keyword # <<>>
                        THEN Filter(df_filtered,
                                 {i \in 1..Len(df_filtered) :
                                     \/ StrContains(df_filtered[i].Recipe_name, keyword)
                                     \/ StrContains(df_filtered[i].Cuisine_type, keyword)})
                        ELSE df_filtered
                    total == Len(masked)
                IN  /\ aPc' = "done"
                    /\ rec_df' = masked
                    /\ IF total = 0
                       THEN /\ total_pages' = 1
                            /\ current_page' = 1
                            /\ message' = <<NoRecipes>>
                       ELSE LET sorted == SortByName(masked, tie)
                                pages  == TotalPages(total)
                                page   == ClampPage(form.page, pages)
                                start  == (page - 1) * per_page
                                sliced == ILoc(sorted, start, start + per_page)
                            IN  /\ total_pages' = pages
                                /\ current_page' = page
                                /\ message' = [i \in 1..Len(sliced) |-> RecipeLine(sliced[i])]
    /\ UNCHANGED <<raw_df, form, tie, Cluster, pipeVars, storeVars, readVars, normVars>>

MacroOrder == <<"protein", "carbs", "fat">>
MacroOf(r, m) == CASE m = "protein" -> r.P [] m = "carbs" -> r.C [] m = "fat" -> r.F

Greater_OrEqual(a, b) == a >= b
Greater(a, b) == a > b
RECURSIVE PyMaxFrom(_, _, _, _)
\* max(macros, key=macros.get): a later key replaces the best only when
\* its value is greater
PyMaxFrom(r, keys, i, best) ==
    IF i > Len(keys) THEN best
    ELSE PyMaxFrom(r, keys, i + 1,
                   IF Greater(MacroOf(r, keys[i]), MacroOf(r, best)) THEN keys[i] ELSE best)
label_row(r) == PyMaxFrom(r, MacroOrder, 2, MacroOrder[1])

RECURSIVE Unique(_)
\* the distinct values of a column in order of first appearance
Unique(col) ==
    IF col = <<>> THEN <<>>
    ELSE LET u == Unique(SubSeq(col, 1, Len(col) - 1))
         IN  IF InSeq(col[Len(col)], u) THEN u ELSE Append(u, col[Len(col)])
CountOf(col, k) == Cardinality({i \in 1..Len(col) : col[i] = k})
Tally(col, k) == [key |-> k, count |-> CountOf(col, k)]
Descending_Ascending(t) == \A i \in 1..(Len(t) - 1) : t[i].count <= t[i + 1].count
Descending(t) == \A i \in 1..(Len(t) - 1) : t[i].count >= t[i + 1].count
\* the orders value_counts can list the tallies in: descending count, the
\* order among equal counts left to the sort
ValueCounts(col) ==
    LET u == Unique(col)
    IN  {t \in [1..Len(u) -> {Tally(col, u[i]) : i \in 1..Len(u)}] :
            /\ \A i, j \in 1..Len(u) : i # j => t[i] # t[j]
            /\ Descending(t)}

Title(k) == CASE k = "protein" -> "Protein" [] k = "carbs" -> "Carbs" [] k = "fat" -> "Fat"
NoData == [text |-> "No data for selected diet."]
ClusterLine(t) == [text |-> "{k} dominant: {v} recipes", k |-> Title(t.key), v |-> t.count]

\* lines 207-217 and 303-318: a request with action "clusters"
Index_Clusters ==
    /\ aPc = "idle"
    /\ form.action = "clusters"
    /\ aPc' = "done"
    /\ LET df == filter_by_diet(raw_df, form.dietType)
       IN  IF df = <<>>
           THEN /\ message' = <<NoData>>
                /\ Cluster' = <<>>
           ELSE LET labels == [i \in 1..Len(df) |-> label_row(df[i])]
                IN  /\ Cluster' = labels
                    /\ \E counts \in ValueCounts(labels) :
                          message' = [i \in 1..Len(counts) |-> ClusterLine(counts[i])]
    /\ UNCHANGED <<raw_df, form, tie, rec_df, total_pages, current_page,
                   pipeVars, storeVars, readVars, normVars>>

\* ====================================================================
\* Specifications
\* ====================================================================
\* a single run over any input blob, with working storage
InitPipe ==
    /\ PipeInit /\ ReadInit /\ NormIdle /\ AppIdle
    /\ localFile = Absent /\ cleanedStore = NoneV /\ summaryStore = Absent
NextPipe ==
    \/ Pipeline_Read(InputBlobs, 1)
    \/ Pipeline_MirrorOpen
    \/ Pipeline_MirrorDump
    \/ Pipeline_WriteCsv
    \/ Pipeline_SetSummary
    \/ Host_Put
SpecPipe == InitPipe /\ [][NextPipe]_vars

\* runs and requests interleaved, over storage that can fail
InitCache ==
    /\ PipeInit /\ ReadInit /\ NormIdle /\ AppIdle
    /\ localFile \in {Absent, Garbage}
    /\ cleanedStore = NoneV
    /\ summaryStore \in {Absent, Garbage}
NextCache ==
    \/ Pipeline_Read(CacheInputs, MaxRuns)
    \/ Pipeline_MirrorOpen
    \/ Pipeline_MirrorDump
    \/ Pipeline_MirrorFails
    \/ Pipeline_WriteCsv
    \/ Pipeline_SetSummary
    \/ Host_Put
    \/ Host_PutFails
    \/ Get_FetchDurable(MaxReads)
    \/ Get_ReadLocal
SpecCache == InitCache /\ [][NextCache]_vars

\* the normalization of one raw row
RawStrings == SeqsUpTo(Alphabet, MaxStrLen)
RawSamples == {<<>>, <<"1">>}
MacroCols  == {"Protein(g)", "Carbs(g)", "Fat(g)"}
AltCol(col) == CASE col = "Protein(g)" -> "Protein (g)"
                 [] col = "Carbs(g)"   -> "Carbs (g)"
                 [] col = "Fat(g)"     -> "Fat (g)"

\* lines 41-60: one pass of the loop body up to cleaned_rows.append
Normalize ==
    /\ nPc = "idle"
    /\ clean_row' = CleanRow(raw_row)
    /\ nPc' = "cleaned"
    /\ UNCHANGED <<raw_row, pipeVars, storeVars, readVars, appVars>>

InitNorm ==
    /\ PipeInit /\ ReadInit /\ AppIdle
    /\ localFile = Absent /\ cleanedStore = NoneV /\ summaryStore = Absent
    /\ nPc = "idle" /\ clean_row = EmptyDict
    /\ \E h \in Headers, n \in 0..3, free \in 1..3 :
       \E s \in RawStrings, o \in RawSamples, d \in {Keto, <<>>} :
          raw_row = DictReaderRow(h, <<d>> \o [i \in 1..n |-> IF i = free THEN s ELSE o])
NextNorm == Normalize
SpecNorm == InitNorm /\ [][NextNorm]_vars

\* the datasets and requests of the dashboard
DietA == <<"K", "a">>
DietB == <<"V", "b">>
AppIdleStores ==
    /\ PipeInit /\ ReadInit /\ NormIdle
    /\ localFile = Absent /\ cleanedStore = NoneV /\ summaryStore = Absent
AppOut ==
    /\ aPc = "idle" /\ rec_df = <<>> /\ Cluster = <<>> /\ message = <<>>
    /\ total_pages = 1 /\ current_page = 1

NamePool == <<Str(<<"b">>), Str(<<"a", "b">>), Str(<<"B">>), Str(<<"a">>), NoneV>>
PagerRecord(i) ==
    [Diet_type    |-> IF i % 3 = 0 THEN DietB ELSE DietA,
     Recipe_name  |-> NamePool[((i * 3) % 5) + 1],
     Cuisine_type |-> NamePool[(i % 2) + 1],
     P |-> i % 3, C |-> 1, F |-> 0]
PagerData(n) == [i \in 1..n |-> PagerRecord(i)]
PageVals == -1..MaxPage

InitPager ==
    /\ AppIdleStores /\ AppOut
    /\ \E n \in 0..MaxTotal : raw_df = PagerData(n)
    /\ tie \in {"first", "last"}
    /\ form \in [action : {"recipes"}, dietType : {<<>>, <<"k", "A">>},
                 keyword : {<<>>, <<"b">>}, page : PageVals]
SpecPager == InitPager /\ [][Index_Recipes]_vars

CellVals   == {Str(<<"a", "b">>), Str(<<"A">>), Str(<<"b", ".">>), NoneV}
KwAlphabet == {"a", "B", ".", "(", " "}
Keywords   == SeqsUpTo(KwAlphabet, MaxKwLen)
SearchRecords ==
    [Diet_type : {DietA}, Recipe_name : CellVals, Cuisine_type : CellVals,
     P : {1}, C : {0}, F : {0}]

InitSearch ==
    /\ AppIdleStores /\ AppOut
    /\ raw_df \in SeqsUpTo(SearchRecords, MaxRecs)
    /\ tie = "first"
    /\ form \in [action : {"recipes"}, dietType : {<<>>},
                 keyword : Keywords, page : {1}]
SpecSearch == InitSearch /\ [][Index_Recipes]_vars

MacroVals == 0..MaxMacro
ClusterRecords ==
    [Diet_type : {DietA}, Recipe_name : {Str(<<"a">>)}, Cuisine_type : {Str(<<"b">>)},
     P : MacroVals, C : MacroVals, F : MacroVals]

InitCluster ==
    /\ AppIdleStores /\ AppOut
    /\ raw_df \in SeqsUpTo(ClusterRecords, MaxCRecs)
    /\ tie = "first"
    /\ form \in [action : {"clusters"}, dietType : {<<>>, <<"k", "a">>, <<"v", "b">>},
                 keyword : {<<>>}, page : {1}]
SpecCluster == InitCluster /\ [][Index_Clusters]_vars

Spec == SpecCache

\* ====================================================================
\* Properties
\* ====================================================================
Finished == rPc = "idle" /\ resp.kind # "none"

\* C1: a request ends in a success response or, when both stages failed, in
\* the not-found outcome; no failure of a stage reaches the caller as an
\* exception.
C1_NoException ==
    Finished =>
        /\ resp.kind \in {"ok", "notfound"}
        /\ (durableOutcome # "ok" /\ localOutcome # "ok") => resp.kind = "notfound"

\* C2 as stated: the tag of a success response is "durable" exactly when the
\* durable fetch succeeded, "local" exactly when the durable fetch failed and
\* the mirror read succeeded, and nothing else.
C2_TagDurable ==
    (Finished /\ resp.kind = "ok") =>
        /\ resp.source \in {"durable", "local"}
        /\ resp.source = "durable" <=> durableOutcome = "ok"
        /\ resp.source = "local" <=> (durableOutcome # "ok" /\ localOutcome = "ok")

\* C2 amended: the tag of a success response is "blob" exactly when the
\* durable fetch succeeded, "local" exactly when the durable fetch failed and
\* the mirror read succeeded, and nothing else; the data is what the tagged
\* store held.
C2_TagBlob ==
    (Finished /\ resp.kind = "ok") =>
        /\ resp.source \in {"blob", "local"}
        /\ resp.source = "blob" <=> durableOutcome = "ok"
        /\ resp.source = "local" <=> (durableOutcome # "ok" /\ localOutcome = "ok")

C2_Witness ==
    /\ Finished /\ resp.kind = "ok" /\ resp.source = "blob"
    /\ durableOutcome = "ok" /\ runs > 0

\* C3: a reader never observes a partially written artifact: the data of a
\* success response is the complete summary of some run, and a read of the
\* mirror that overlaps its write does not fail on the unfinished content.
C3_NoPartialRead ==
    Finished =>
        /\ resp.kind = "ok" => resp.data.v \in written
        /\ ~(overlapped /\ resp.kind = "exception" /\ localOutcome = "JSONDecodeError")

\* C4: after a run whose durable write failed, a request is answered as it
\* would have been answered before the run started, whatever the stores'
\* availability.
C4_FailedRunInvisible ==
    pPc = "failed" =>
        \A up \in BOOLEAN, readable \in BOOLEAN :
            Response(summaryStore, localFile, up, readable)
                = Response(startSummary, startLocal, up, readable)

\* a decimal literal: an optional sign, digits with at most one point, at
\* least one digit
IsDecimalLiteral(s) ==
    LET u == IF s # <<>> /\ s[1] = "-" THEN Tail(s) ELSE s
    IN  /\ \A i \in 1..Len(u) : u[i] \in Digits \cup {"."}
        /\ Cardinality({i \in 1..Len(u) : u[i] = "."}) <= 1
        /\ \E i \in 1..Len(u) : u[i] \in Digits
RawMacro(row, col) == Or(DictGet(row, col), DictGet(row, AltCol(col)))
Unusable(x) == x.t = "none" \/ ~IsDecimalLiteral(Strip(x.v))

\* C5: each macro field of the normalized record is a number, never null or
\* NaN, and is 0.0 whenever the raw field is missing, empty or not a number.
C5_MacrosNumeric ==
    nPc = "cleaned" =>
        \A col \in MacroCols :
            LET x == DictGet(clean_row, col)
            IN  /\ x.t = "float"
                /\ x.v.k = "fin"
                /\ Unusable(RawMacro(raw_row, col)) => x.v = Zero

\* C6: with working storage, a run over any blob readable as CSV completes
\* and writes the cleaned dataset and the summary without raising.
C6_RunCompletes ==
    /\ pPc # "raised"
    /\ pPc = "done" => (cleanedStore.t = "csv" /\ summaryStore.exists)

Served(action) == aPc = "done" /\ form.action = action
Subset == filter_by_diet(raw_df, form.dietType)

\* C7: total_pages is max(1, ceil(total / 10)), the page is clamped into
\* [1, total_pages]; with no match the output is page 1 of 1 and the single
\* no-results message, otherwise the slice holds the 1 to 10 records at
\* positions (page-1)*10 .. page*10 of the sorted matches.
C7_Pager ==
    Served("recipes") =>
        LET total == Len(rec_df)
        IN  /\ total_pages >= 1
            /\ (total_pages - 1) * 10 < (IF total = 0 THEN 1 ELSE total)
            /\ total <= total_pages * 10
            /\ current_page \in 1..total_pages
            /\ form.page < 1 => current_page = 1
            /\ form.page > total_pages => current_page = total_pages
            /\ (total > 0 /\ form.page \in 1..total_pages) => current_page = form.page
            /\ total = 0 => (total_pages = 1 /\ current_page = 1 /\ message = <<NoRecipes>>)
            /\ total > 0 =>
                /\ Len(message) \in 1..10
                /\ Len(message) = (IF total - (current_page - 1) * 10 < 10
                                   THEN total - (current_page - 1) * 10 ELSE 10)
                /\ \E t \in {"first", "last"} :
                     \A i \in 1..Len(message) :
                        message[i] = RecipeLine(SortByName(rec_df, t)[(current_page - 1) * 10 + i])

C7_Witness ==
    /\ Served("recipes") /\ Len(rec_df) = 23 /\ form.page = 5
    /\ total_pages = 3 /\ current_page = 3 /\ Len(message) = 3

LiteralContains(x, kw) ==
    /\ x.t = "str"
    /\ \E i \in 1..(Len(x.v) - Len(kw) + 1) :
          \A j \in 1..Len(kw) : Lower(kw[j]) = Lower(x.v[i + j - 1])

\* C8: for a non-empty keyword the search retains exactly the records in
\* which the keyword occurs as a case-insensitive literal substring of
\* recipe_name or of cuisine_type.
C8_LiteralSubstring ==
    LET kw == Strip(form.keyword)
    IN  (form.action = "recipes" /\ aPc # "idle" /\ kw # <<>>) =>
            /\ aPc = "done"
            /\ rec_df = Filter(Subset,
                           {i \in 1..Len(Subset) :
                               \/ LiteralContains(Subset[i].Recipe_name, kw)
                               \/ LiteralContains(Subset[i].Cuisine_type, kw)})

\* the first macro in the order protein, carbs, fat that holds the maximum
Dominant(r) ==
    IF r.P >= r.C /\ r.P >= r.F THEN "protein"
    ELSE IF r.C >= r.F THEN "carbs" ELSE "fat"

\* C9: every record is assigned the first macro in the order protein, carbs,
\* fat whose value is the maximum of the three; fat only when fat is strictly
\* greater than protein and carbs.
C9_FirstMaximum ==
    Served("clusters") =>
        /\ Len(Cluster) = Len(Subset)
        /\ \A i \in 1..Len(Subset) :
              /\ Cluster[i] = Dominant(Subset[i])
              /\ Cluster[i] = "fat" <=>
                    (Subset[i].F > Subset[i].P /\ Subset[i].F > Subset[i].C)

C9_Witness ==
    /\ Served("clusters")
    /\ \E i, j \in 1..Len(Cluster) :
          /\ Subset[i].P = Subset[i].C /\ Subset[i].C = Subset[i].F
          /\ Cluster[i] = "protein"
          /\ Subset[j].C = Subset[j].F /\ Subset[j].C > Subset[j].P
          /\ Cluster[j] = "carbs"

Classes == {"protein", "carbs", "fat"}
Members(k) == {i \in 1..Len(Subset) : Dominant(Subset[i]) = k}
TallyLines ==
    /\ \A i \in 1..Len(message) :
          \E k \in Classes :
              /\ message[i] = ClusterLine([key |-> k, count |-> Cardinality(Members(k))])
              /\ Members(k) # {}
    /\ \A k \in Classes :
          Members(k) # {} => \E i \in 1..Len(message) : message[i].k = Title(k)
    /\ \A i, j \in 1..Len(message) : i < j =>
          /\ message[i].v >= message[j].v
          /\ message[i].k # message[j].k
EvalRank(title) == CASE title = "Protein" -> 1 [] title = "Carbs" -> 2 [] title = "Fat" -> 3

\* C10 as stated: the tally lines are in descending order of count, classes
\* with equal counts in the order protein, carbs, fat, and each count is the
\* number of records of the subset with that dominant class.
C10_TiesInEvalOrder ==
    (Served("clusters") /\ Subset # <<>>) =>
        /\ TallyLines
        /\ \A i, j \in 1..Len(message) :
              (i < j /\ message[i].v = message[j].v)
                  => EvalRank(message[i].k) < EvalRank(message[j].k)

\* C10 amended: the tally lines are in descending order of count, one line
\* for each class that has a record, and each count is the number of records
\* of the subset with that dominant class; the order of classes with equal
\* counts is not the evaluation order.
C10_Tally ==
    (Served("clusters") /\ Subset # <<>>) => TallyLines

C10_Witness ==
    /\ Served("clusters") /\ Len(message) = 2
    /\ message[1].v = message[2].v
    /\ message[1].k = "Fat" /\ message[2].k = "Protein"

RECURSIVE DataLines(_)
\* the lines of a blob that are rows: blank lines are not
DataLines(lines) ==
    IF lines = <<>> THEN <<>>
    ELSE (IF lines[1] = <<>> THEN <<>> ELSE <<lines[1]>>) \o DataLines(Tail(lines))
\* the diet type a row names: its first field, "Unknown" without one
RowDiet(fields) == IF fields[1] # <<>> THEN fields[1] ELSE Unknown
RowsOfDiet(lines, d) == {i \in 1..Len(lines) : RowDiet(lines[i]) = d}
RECURSIVE MacroSum(_, _, _, _)
\* the sum of a macro of the first n cleaned rows of diet type d
MacroSum(lines, d, col, n) ==
    IF n = 0 THEN Zero
    ELSE FAdd(MacroSum(lines, d, col, n - 1),
              IF RowDiet(lines[n]) = d THEN cleaned_rows[n].val[col].v ELSE Zero)
\* a is s divided by c; the quotient of a NaN sum is the NaN
IsQuotient(a, s, c) ==
    IF s.k = "nan" THEN a.k = "nan"
    ELSE a.k = "fin" /\ a.n * s.d * c = s.n * a.d
RECURSIVE CountTotal(_, _)
CountTotal(counts, n) ==
    IF n = 0 THEN 0 ELSE CountTotal(counts, n - 1) + counts.val[counts.keys[n]]

\* C11: the two maps of the summary have the same key set, the diet types
\* occurring in the rows ("Unknown" for a row without one); every count is
\* at least 1 and is the number of rows of its diet type, so the counts sum
\* to the number of rows; every average is the diet type's macro sum divided
\* by its count; with no rows both maps are empty.
C11_SummaryArtifact ==
    pPc # "idle" =>
        LET lines  == DataLines(inputBlob.lines)
            avg    == summaries.avg_macros_by_diet
            counts == summaries.recipe_counts_by_diet
            diets  == {RowDiet(lines[i]) : i \in 1..Len(lines)}
        IN  /\ KeySet(avg) = diets /\ DOMAIN avg.val = diets
            /\ KeySet(counts) = diets /\ DOMAIN counts.val = diets
            /\ Len(avg.keys) = Cardinality(diets)
            /\ Len(counts.keys) = Cardinality(diets)
            /\ \A d \in diets :
                  /\ counts.val[d] >= 1
                  /\ counts.val[d] = Cardinality(RowsOfDiet(lines, d))
                  /\ IsQuotient(avg.val[d].P, MacroSum(lines, d, "Protein(g)", Len(lines)), counts.val[d])
                  /\ IsQuotient(avg.val[d].C, MacroSum(lines, d, "Carbs(g)", Len(lines)), counts.val[d])
                  /\ IsQuotient(avg.val[d].F, MacroSum(lines, d, "Fat(g)", Len(lines)), counts.val[d])
            /\ CountTotal(counts, Len(counts.keys)) = Len(lines)
            /\ lines = <<>> => (avg.keys = <<>> /\ counts.keys = <<>>)

C11_Witness ==
    /\ pPc = "done"
    /\ InSeq(Keto, summaries.recipe_counts_by_diet.keys)
    /\ summaries.recipe_counts_by_diet.val[Keto] = 2
    /\ summaries.avg_macros_by_diet.val[Keto].P = Fin(11, 2)
====
